---- MODULE Spec2Model ----
(* pdf_to_txt.py: batch conversion of the PDF files of the working directory  *)
(* into text files.  File names and texts are tuples of one-character         *)
(* strings, so that lower(), endswith(), splitext() and join() are computed.  *)
(* A path is represented by its entry name: every path the program builds is  *)
(* os.path.join(current_dir, name) for the one working directory.             *)
EXTENDS Integers, Sequences, FiniteSets, TLC

VARIABLES
    has_pypdf,      \* the import of pypdf succeeds
    has_PyPDF2,     \* the import of PyPDF2 succeeds
    PdfReader,      \* "unbound", or the library PdfReader was imported from
    exit_status,    \* -1 while running, else the process exit status
    pc,             \* position in the script
    fs,             \* the working directory: entry name -> file
    files,          \* the filtered listing
    i,              \* index in files of the loop variable filename
    txt_filename,   \* the output name of the current file
    text_content,   \* the non-empty page texts of the current file
    open_files,     \* paths with an open file object
    log,            \* the console output of this process
    fs0,            \* history: the directory when this process started
    opens,          \* history: <<path, filename>> of each open(txt_path, 'w') that succeeded
    wrote,          \* history: filenames whose with block ended without exception
    faults,         \* number of output faults (open or write errors) so far
    runs            \* number of times the script was started

vars == <<has_pypdf, has_PyPDF2, PdfReader, exit_status, pc, fs, files, i,
          txt_filename, text_content, open_files, log, fs0, opens, wrote, faults, runs>>

(* ------------------------------ bounds ---------------------------------- *)
MaxFiles == 2
MaxPages == 3
MaxStem == 1
MaxFaults == 1

(* ------------------------------ strings --------------------------------- *)
DotPdf == <<".", "p", "d", "f">>
DotTxt == <<".", "t", "x", "t">>
NewLine == <<"\n">>

\* str.lower() on one character of the alphabet used here
LowerChar(c) ==
    CASE c = "P" -> "p"
      [] c = "D" -> "d"
      [] c = "F" -> "f"
      [] OTHER -> c

Lower(s) == [k \in 1..Len(s) |-> LowerChar(s[k])]

EndsWith(s, suffix) ==
    /\ Len(s) >= Len(suffix)
    /\ SubSeq(s, Len(s) - Len(suffix) + 1, Len(s)) = suffix

\* str.rfind(c), 1-based: 0 when c does not occur (Python's -1)
RFind(s, c) ==
    LET hits == {k \in 1..Len(s) : s[k] = c}
    IN  IF hits = {} THEN 0 ELSE CHOOSE k \in hits : \A j \in hits : j <= k

\* the filter of the list comprehension: f.lower().endswith('.pdf')
IsPdfNameNoLower(f) == EndsWith(f, DotPdf)
IsPdfNameNoDot(f) == EndsWith(Lower(f), <<"p", "d", "f">>)
IsPdfName(f) == EndsWith(Lower(f), DotPdf)

\* os.path.splitext(p)[0]: the extension starts at the last dot, unless only
\* dots lie between the last separator and that dot
SplitextRoot(p) ==
    LET sepIndex == RFind(p, "/")
        dotIndex == RFind(p, ".")
    IN  IF /\ dotIndex > sepIndex
           /\ \E k \in (sepIndex + 1)..(dotIndex - 1) : p[k] # "."
        THEN SubSeq(p, 1, dotIndex - 1)
        ELSE p

TxtFilename(filename) == SplitextRoot(filename) \o DotTxt

\* "\n".join(texts)
RECURSIVE Join(_)
Join(texts) ==
    IF texts = <<>> THEN <<>>
    ELSE IF Len(texts) = 1 THEN texts[1]
    ELSE texts[1] \o NewLine \o Join(Tail(texts))

Prefixes(t) == {SubSeq(t, 1, k) : k \in 0..Len(t)}

(* ------------------------------- files ---------------------------------- *)
\* a file of the directory: a PDF document with its pages, or other content
PdfFile(pages) == [pdf |-> TRUE, pages |-> pages, data |-> <<>>]
TextFile(data) == [pdf |-> FALSE, pages |-> <<>>, data |-> data]

\* what page.extract_text() does on a page: returns None, returns a string
\* (possibly empty), or raises
NonePage == [r |-> "none", t |-> <<>>]
RaisePage == [r |-> "raise", t |-> <<>>]
TextPage(t) == [r |-> "text", t |-> t]

\* `if text:` on the value extract_text() returned
KeepsEmpty(page) == page.r = "text"
Truthy(page) == page.r = "text" /\ page.t # <<>>

\* the loop over reader.pages: the texts appended to text_content
RECURSIVE ExtractAll(_)
ExtractAll(pages) ==
    IF pages = <<>> THEN <<>>
    ELSE (IF Truthy(pages[1]) THEN <<pages[1].t>> ELSE <<>>) \o ExtractAll(Tail(pages))

\* PdfReader(pdf_path) raises on a file that is no readable PDF
ReaderRaises(file) == ~file.pdf
ExtractRaises(file) == \E k \in 1..Len(file.pages) : file.pages[k].r = "raise"

(* ------------------------------ console --------------------------------- *)
Msg(m, file, txt, n) == [m |-> m, file |-> file, txt |-> txt, n |-> n]
MsgNoLibrary == Msg("no_library", <<>>, <<>>, 0)
MsgInstallHint == Msg("install_hint", <<>>, <<>>, 0)
MsgNoPdf == Msg("no_pdf", <<>>, <<>>, 0)
MsgFound(n) == Msg("found", <<>>, <<>>, n)
MsgStart(file, txt) == Msg("start", file, txt, 0)
MsgSuccess(txt) == Msg("success", <<>>, txt, 0)
MsgError(file) == Msg("error", file, <<>>, 0)
MsgDone == Msg("done", <<>>, <<>>, 0)

(* ------------------------- directories at start ------------------------- *)
RECURSIVE ListingOrders(_)
ListingOrders(S) ==
    IF S = {} THEN {<<>>}
    ELSE UNION {{<<x>> \o p : p \in ListingOrders(S \ {x})} : x \in S}

RECURSIVE Strings(_, _)
Strings(alphabet, n) ==
    IF n = 0 THEN {<<>>}
    ELSE Strings(alphabet, n - 1)
         \cup {s \o <<c>> : s \in Strings(alphabet, n - 1), c \in alphabet}

\* several entries with few contents
BatchNames ==
    { <<"a">> \o DotPdf, <<"a", ".", "P", "D", "F">>, DotPdf,
      <<"n">> \o DotTxt, <<"a">> \o DotTxt }
BatchFiles ==
    { PdfFile(<<TextPage(<<"H">>)>>), PdfFile(<<TextPage(<<"W">>)>>),
      PdfFile(<<TextPage(<<"H">>), RaisePage>>), TextFile(<<"o">>) }
BatchDirs ==
    UNION {[S -> BatchFiles] : S \in {T \in SUBSET BatchNames : Cardinality(T) <= MaxFiles}}

\* one PDF with every page sequence
PageVals ==
    { NonePage, RaisePage, TextPage(<<>>), TextPage(<<"H">>), TextPage(<<"W">>),
      TextPage(<<"H", "W">>) }
PageSeqs == UNION {[1..n -> PageVals] : n \in 0..MaxPages}
PageDirs == {[n \in {<<"a">> \o DotPdf} |-> PdfFile(p)] : p \in PageSeqs}

\* one entry with every name
Stems == Strings({"a", "."}, MaxStem)
Mids == {<<>>, DotPdf}
Exts ==
    { DotPdf, <<".", "P", "D", "F">>, <<".", "P", "d", "f">>, DotTxt,
      <<>>, <<"p", "d", "f">>, <<".", "p", "d", "f", "x">> }
WideNames == {s \o m \o e : s \in Stems, m \in Mids, e \in Exts} \ {<<>>}
NameDirs == {[n \in {name} |-> PdfFile(<<TextPage(<<"H">>)>>)] : name \in WideNames}

Directories == BatchDirs \cup PageDirs \cup NameDirs

(* ------------------------------- Init ----------------------------------- *)
Init ==
    /\ has_pypdf \in BOOLEAN
    /\ has_PyPDF2 \in BOOLEAN
    /\ PdfReader = "unbound"
    /\ exit_status = -1
    /\ pc = "import"
    /\ fs \in Directories
    /\ files = <<>>
    /\ i = 0
    /\ txt_filename = <<>>
    /\ text_content = <<>>
    /\ open_files = {}
    /\ log = <<>>
    /\ fs0 = fs
    /\ opens = <<>>
    /\ wrote = {}
    /\ faults = 0
    /\ runs = 1

(* --------------------------- module import ------------------------------ *)
\* lines 2-10: which library PdfReader comes from, or "exit"
ImportNoFallback(first, second) == IF first THEN "pypdf" ELSE "exit"
ImportResult(first, second) ==
    IF first THEN "pypdf" ELSE IF second THEN "PyPDF2" ELSE "exit"

Import ==
    /\ pc = "import"
    /\ ImportResult(has_pypdf, has_PyPDF2) # "exit"
    /\ PdfReader' = ImportResult(has_pypdf, has_PyPDF2)
    /\ pc' = "main"
    /\ UNCHANGED <<has_pypdf, has_PyPDF2, exit_status, fs, files, i, txt_filename,
                   text_content, open_files, log, fs0, opens, wrote, faults, runs>>

ImportFail ==
    /\ pc = "import"
    /\ ImportResult(has_pypdf, has_PyPDF2) = "exit"
    /\ log' = log \o <<MsgNoLibrary, MsgInstallHint>>
    /\ exit_status' = 1
    /\ pc' = "exited"
    /\ UNCHANGED <<has_pypdf, has_PyPDF2, PdfReader, fs, files, i, txt_filename,
                   text_content, open_files, fs0, opens, wrote, faults, runs>>

(* ------------------------ convert_pdfs_to_txt --------------------------- *)
\* lines 14-23: os.listdir yields the entries in some order; the comprehension
\* keeps the matching ones in that order
ListDir ==
    /\ pc = "main"
    /\ \E listing \in ListingOrders(DOMAIN fs) :
          files' = SelectSeq(listing, IsPdfName)
    /\ IF files' = <<>>
       THEN /\ log' = Append(log, MsgNoPdf)
            /\ pc' = "returned"
            /\ exit_status' = 0
       ELSE /\ log' = Append(log, MsgFound(Len(files')))
            /\ pc' = "loop"
            /\ UNCHANGED exit_status
    /\ i' = 1
    /\ UNCHANGED <<has_pypdf, has_PyPDF2, PdfReader, fs, txt_filename, text_content,
                   open_files, fs0, opens, wrote, faults, runs>>

\* lines 25-30
StartFile ==
    /\ pc = "loop"
    /\ i <= Len(files)
    /\ txt_filename' = TxtFilename(files[i])
    /\ log' = Append(log, MsgStart(files[i], txt_filename'))
    /\ pc' = "read"
    /\ UNCHANGED <<has_pypdf, has_PyPDF2, PdfReader, exit_status, fs, files, i,
                   text_content, open_files, fs0, opens, wrote, faults, runs>>

\* lines 46-47 followed by the next iteration: the index of the file
\* processed after an exception in file k of n
OnExceptionAbort(k, n) == n + 1
OnException(k, n) == k + 1

\* the with statement closes the file object on every exit of its block
WithExitLeak(handles, path) == handles
WithExit(handles, path) == handles \ {path}

\* lines 33-39
ReadPdf ==
    /\ pc = "read"
    /\ IF ReaderRaises(fs[files[i]]) \/ ExtractRaises(fs[files[i]])
       THEN /\ log' = Append(log, MsgError(files[i]))
            /\ i' = OnException(i, Len(files))
            /\ pc' = "loop"
            /\ UNCHANGED text_content
       ELSE /\ text_content' = ExtractAll(fs[files[i]].pages)
            /\ pc' = "open"
            /\ UNCHANGED <<log, i>>
    /\ UNCHANGED <<has_pypdf, has_PyPDF2, PdfReader, exit_status, fs, files,
                   txt_filename, open_files, fs0, opens, wrote, faults, runs>>

\* line 41: open(txt_path, 'w') creates or truncates the file
OpenTxt ==
    /\ pc = "open"
    /\ fs' = [n \in DOMAIN fs \cup {txt_filename} |->
                IF n = txt_filename THEN TextFile(<<>>) ELSE fs[n]]
    /\ open_files' = open_files \cup {txt_filename}
    /\ opens' = Append(opens, <<txt_filename, files[i]>>)
    /\ pc' = "write"
    /\ UNCHANGED <<has_pypdf, has_PyPDF2, PdfReader, exit_status, files, i,
                   txt_filename, text_content, log, fs0, wrote, faults, runs>>

\* line 41 raising (permissions, a directory of that name): nothing is opened
OpenTxtFails ==
    /\ pc = "open"
    /\ faults < MaxFaults
    /\ faults' = faults + 1
    /\ log' = Append(log, MsgError(files[i]))
    /\ i' = OnException(i, Len(files))
    /\ pc' = "loop"
    /\ UNCHANGED <<has_pypdf, has_PyPDF2, PdfReader, exit_status, fs, files,
                   txt_filename, text_content, open_files, fs0, opens, wrote, runs>>

\* line 42 and the end of the with block
WriteTxt ==
    /\ pc = "write"
    /\ fs' = [fs EXCEPT ![txt_filename] = TextFile(Join(text_content))]
    /\ open_files' = WithExit(open_files, txt_filename)
    /\ wrote' = wrote \cup {files[i]}
    /\ pc' = "report"
    /\ UNCHANGED <<has_pypdf, has_PyPDF2, PdfReader, exit_status, files, i,
                   txt_filename, text_content, log, fs0, opens, faults, runs>>

\* line 42 or the flush at close raising (disk full, I/O or encoding error):
\* some prefix of the text has reached the file
WriteTxtFails ==
    /\ pc = "write"
    /\ faults < MaxFaults
    /\ faults' = faults + 1
    /\ \E part \in Prefixes(Join(text_content)) :
          fs' = [fs EXCEPT ![txt_filename] = TextFile(part)]
    /\ open_files' = WithExit(open_files, txt_filename)
    /\ log' = Append(log, MsgError(files[i]))
    /\ i' = OnException(i, Len(files))
    /\ pc' = "loop"
    /\ UNCHANGED <<has_pypdf, has_PyPDF2, PdfReader, exit_status, files,
                   txt_filename, text_content, fs0, opens, wrote, runs>>

\* line 44
ReportSuccess ==
    /\ pc = "report"
    /\ log' = Append(log, MsgSuccess(txt_filename))
    /\ i' = i + 1
    /\ pc' = "loop"
    /\ UNCHANGED <<has_pypdf, has_PyPDF2, PdfReader, exit_status, fs, files,
                   txt_filename, text_content, open_files, fs0, opens, wrote, faults, runs>>

\* line 49
Finish ==
    /\ pc = "loop"
    /\ i > Len(files)
    /\ log' = Append(log, MsgDone)
    /\ pc' = "returned"
    /\ exit_status' = 0
    /\ UNCHANGED <<has_pypdf, has_PyPDF2, PdfReader, fs, files, i, txt_filename,
                   text_content, open_files, fs0, opens, wrote, faults, runs>>

\* lines 51-52: the script is started a second time on the directory the
\* first run left
Rerun ==
    /\ pc = "returned"
    /\ runs = 1
    /\ runs' = 2
    /\ pc' = "import"
    /\ PdfReader' = "unbound"
    /\ exit_status' = -1
    /\ fs0' = fs
    /\ files' = <<>>
    /\ i' = 0
    /\ txt_filename' = <<>>
    /\ text_content' = <<>>
    /\ log' = <<>>
    /\ opens' = <<>>
    /\ wrote' = {}
    /\ UNCHANGED <<has_pypdf, has_PyPDF2, fs, open_files, faults>>

Next ==
    \/ Import
    \/ ImportFail
    \/ ListDir
    \/ StartFile
    \/ ReadPdf
    \/ OpenTxt
    \/ OpenTxtFails
    \/ WriteTxt
    \/ WriteTxtFails
    \/ ReportSuccess
    \/ Finish
    \/ Rerun

Spec == Init /\ [][Next]_vars

\* the interpreter runs the script to its end: no step is postponed forever
FairSpec == Spec /\ WF_vars(Next)

(* ------------------------- what the claims use -------------------------- *)
\* a name ending in '.pdf' in any letter case, stated character by character
EndsInPdfAnyCase(f) ==
    /\ Len(f) >= 4
    /\ f[Len(f) - 3] = "."
    /\ f[Len(f) - 2] \in {"p", "P"}
    /\ f[Len(f) - 1] \in {"d", "D"}
    /\ f[Len(f)] \in {"f", "F"}

\* the matching entries of the directory this process started on
MatchingEntries == {n \in DOMAIN fs0 : EndsInPdfAnyCase(n)}

\* the listing has been taken and filtered
Listed == pc \in {"loop", "read", "open", "write", "report", "returned"}

\* inside the loop body of file i
InFile == pc \in {"read", "open", "write", "report"}

\* the entries whose content differs between the start of this process and now
Changed ==
    {n \in DOMAIN fs \cup DOMAIN fs0 :
        \/ n \notin DOMAIN fs
        \/ n \notin DOMAIN fs0
        \/ fs[n] # fs0[n]}

OpenedPaths == {opens[k][1] : k \in 1..Len(opens)}

\* the file the path was last opened for
LastOpener(path) ==
    LET ks == {k \in 1..Len(opens) : opens[k][1] = path}
    IN  opens[CHOOSE k \in ks : \A j \in ks : j <= k][2]

\* a PDF that opens and whose pages all extract
Readable(f) ==
    /\ fs0[f].pdf
    /\ \A k \in 1..Len(fs0[f].pages) : fs0[f].pages[k].r # "raise"

FullText(f) == Join(ExtractAll(fs0[f].pages))

HasError == \E k \in 1..Len(log) : log[k].m = "error"

\* str.split("\n") of a text
RECURSIVE SplitLines(_)
SplitLines(d) ==
    LET nl == {k \in 1..Len(d) : d[k] = "\n"}
    IN  IF nl = {} THEN <<d>>
        ELSE LET k == CHOOSE x \in nl : \A y \in nl : x <= y
             IN  <<SubSeq(d, 1, k - 1)>> \o SplitLines(SubSeq(d, k + 1, Len(d)))

(* ------------------------------- claims --------------------------------- *)

\* C1: once the listing holds a matching file, the filtered listing holds every
\* matching entry exactly once; the console shows, for the files handled so far
\* and in that order, a start message followed by exactly one outcome message
\* (success, or an error naming the file) before the next start; the loop
\* reaches every file whatever failed; and the run ends with the completion
\* message.
C1_Safety ==
    (Listed /\ files # <<>>) =>
        /\ {files[k] : k \in 1..Len(files)} = MatchingEntries
        /\ \A j, k \in 1..Len(files) : files[j] = files[k] => j = k
        /\ i \in 1..(Len(files) + 1)
        /\ Len(log) = IF pc = "loop" THEN 2 * i - 1 ELSE 2 * i
        /\ log[1] = MsgFound(Len(files))
        /\ \A k \in 1..(i - 1) :
              /\ log[2 * k].m = "start" /\ log[2 * k].file = files[k]
              /\ \/ log[2 * k + 1].m = "success" /\ log[2 * k + 1].txt = log[2 * k].txt
                 \/ log[2 * k + 1] = MsgError(files[k])
        /\ InFile =>
              /\ i <= Len(files)
              /\ log[2 * i].m = "start" /\ log[2 * i].file = files[i]
        /\ pc = "returned" =>
              /\ i = Len(files) + 1
              /\ log[2 * i] = MsgDone
C1_Ends == (pc = "loop") ~> (pc = "returned" /\ log[Len(log)] = MsgDone)
C1_BatchSurvivesFailures == []C1_Safety /\ C1_Ends
C1_Witness ==
    /\ pc = "returned"
    /\ Len(files) >= 2
    /\ log[3].m = "error"
    /\ log[5].m = "success"

\* C2: nothing but the output names of the entries ending in '.pdf' (any case)
\* is ever created, changed or removed, those names end in '.txt' and are no
\* input; and when the run ends without an error message the paths opened for
\* writing are exactly those output names.
C2_OutputsExactlyForPdfEntries ==
    LET outputs == {TxtFilename(n) : n \in MatchingEntries}
    IN  /\ Changed \subseteq outputs
        /\ OpenedPaths \subseteq outputs
        /\ \A o \in outputs : EndsWith(o, DotTxt) /\ ~EndsInPdfAnyCase(o)
        /\ (pc = "returned" /\ ~HasError) => OpenedPaths = outputs
C2_Witness ==
    /\ pc = "returned"
    /\ ~HasError
    /\ \E n \in DOMAIN fs0 : ~EndsInPdfAnyCase(n)
    /\ \E n \in MatchingEntries : ~EndsWith(n, DotPdf)
    /\ OpenedPaths # {}

\* C3: two distinct matching entries of one listing never get the same output
\* name, and no path is opened for writing twice in one run.
C3_OutputNamesDistinct ==
    /\ \A j, k \in 1..Len(files) :
          j # k => TxtFilename(files[j]) # TxtFilename(files[k])
    /\ \A j, k \in 1..Len(opens) : j # k => opens[j][1] # opens[k][1]

\* C4: the text written for a converted PDF splits at '\n' into exactly the
\* non-empty page texts in page order (and is empty when there is none); pages
\* "H", "", "W" give "H\nW".
C4_JoinedNonEmptyPages ==
    pc = "report" =>
        LET pages == fs0[files[i]].pages
            kept == SelectSeq(pages, LAMBDA p : p.r = "text" /\ Len(p.t) > 0)
            texts == [k \in 1..Len(kept) |-> kept[k].t]
            data == fs[txt_filename].data
        IN  /\ IF texts = <<>> THEN data = <<>> ELSE SplitLines(data) = texts
            /\ pages = <<TextPage(<<"H">>), TextPage(<<>>), TextPage(<<"W">>)>>
                  => data = <<"H", "\n", "W">>
C4_Witness ==
    /\ pc = "report"
    /\ fs0[files[i]].pages = <<TextPage(<<"H">>), TextPage(<<>>), TextPage(<<"W">>)>>

\* C5: after a run without output faults, every readable PDF has its joined
\* text in its .txt file, and every unreadable one has an error message naming
\* it while its output path was never opened and is as it was before the run.
C5_CorruptFileLeavesNoOutput ==
    (pc = "returned" /\ files # <<>> /\ faults = 0) =>
        \A f \in MatchingEntries :
            LET out == TxtFilename(f)
            IN  IF Readable(f)
                THEN out \in DOMAIN fs /\ fs[out].data = FullText(f)
                ELSE /\ out \notin OpenedPaths
                     /\ out \notin Changed
                     /\ \E k \in 1..Len(log) : log[k] = MsgError(f)

\* C6: on a directory without an entry ending in '.pdf' (any case) the run
\* prints only the no-PDF message, touches no file and returns normally.
C6_NoPdfNoWork ==
    (MatchingEntries = {} /\ PdfReader # "unbound") =>
        /\ pc \in {"main", "returned"}
        /\ fs = fs0
        /\ opens = <<>>
        /\ open_files = {}
        /\ pc = "main" => log = <<>>
        /\ pc = "returned" => log = <<MsgNoPdf>> /\ exit_status = 0
C6_Witness ==
    /\ MatchingEntries = {}
    /\ pc = "returned"
    /\ \E n \in DOMAIN fs0 : EndsWith(Lower(n), <<"p", "d", "f">>)

\* C7: after a second run without output faults every .txt file holds what it
\* held after the first run, and no .txt file was taken as an input.
C7_SecondRunSameTexts ==
    (runs = 2 /\ pc = "returned" /\ faults = 0) =>
        /\ \A n \in DOMAIN fs \cup DOMAIN fs0 :
              EndsWith(n, DotTxt) => n \in DOMAIN fs0 /\ n \in DOMAIN fs /\ fs[n] = fs0[n]
        /\ \A k \in 1..Len(files) : ~EndsWith(files[k], DotTxt)

\* C8: the output name computed for a matching entry is the entry's name with
\* its last four characters (the '.pdf' suffix in any case) replaced by '.txt'.
C8_SuffixReplaced ==
    InFile =>
        txt_filename = SubSeq(files[i], 1, Len(files[i]) - 4) \o DotTxt

\* C9: PdfReader comes from pypdf when it imports, else from PyPDF2 when that
\* imports; with neither the process prints its two messages and exits with
\* status 1 before listing, touching nothing; with either it never does.
C9_ImportFallback ==
    /\ pc # "import" =>
          PdfReader = IF has_pypdf THEN "pypdf"
                      ELSE IF has_PyPDF2 THEN "PyPDF2" ELSE "unbound"
    /\ (~has_pypdf /\ ~has_PyPDF2 /\ pc # "import") =>
          /\ pc = "exited"
          /\ exit_status = 1
          /\ log = <<MsgNoLibrary, MsgInstallHint>>
          /\ files = <<>> /\ opens = <<>> /\ fs = fs0
    /\ (has_pypdf \/ has_PyPDF2) => pc # "exited" /\ exit_status # 1
C9_Witness == pc = "exited" /\ exit_status = 1 /\ DOMAIN fs # {}

\* the success message of each handled file is there exactly when its with
\* block ended without exception
SuccessIffWritten ==
    \A k \in 1..(i - 1) : (log[2 * k + 1].m = "success") <=> (files[k] \in wrote)

\* C10 as stated: when the loop moves on, no output is open, every path opened
\* so far holds the complete joined text of the PDF it was opened for, and
\* success was printed exactly for the files completely written.
C10_AlwaysFullyWritten ==
    (pc \in {"loop", "returned"} /\ files # <<>>) =>
        /\ open_files = {}
        /\ \A p \in OpenedPaths : fs[p].data = FullText(LastOpener(p))
        /\ SuccessIffWritten

\* C10 amended: when the loop moves on, no output is open; every path opened so
\* far holds a prefix of the joined text of the PDF it was last opened for, and
\* the complete text when that write ended without exception; success was
\* printed exactly for the files whose write ended without exception.
C10_ClosedAndFullOnSuccess ==
    (pc \in {"loop", "returned"} /\ files # <<>>) =>
        /\ open_files = {}
        /\ \A p \in OpenedPaths :
              /\ fs[p].data \in Prefixes(FullText(LastOpener(p)))
              /\ LastOpener(p) \in wrote => fs[p].data = FullText(LastOpener(p))
        /\ SuccessIffWritten
C10_Witness ==
    /\ pc = "loop"
    /\ \E p \in OpenedPaths :
          /\ LastOpener(p) \notin wrote
          /\ fs[p].data # FullText(LastOpener(p))
    /\ wrote # {}

====
